---- MODULE Spec2Model ----
(***************************************************************************)
(* Model of the LanTalk chat relay, src/server/server.js: the in-memory    *)
(* stores (users, rooms, messages, mutedIPs), the socket.io event handlers *)
(* and the REST handlers that mutate them.                                 *)
(*                                                                         *)
(* Modelling conventions                                                   *)
(*  - A JavaScript Map is a function whose DOMAIN is the set of its keys.  *)
(*    Iteration order of `rooms` only orders the entries of room_list and  *)
(*    is not modelled.                                                     *)
(*  - User records are JavaScript objects shared by reference between      *)
(*    `users` and the `users` arrays of rooms. `objs` is the heap: object   *)
(*    id -> fields; `users` and room.users hold object ids. An object that *)
(*    is no longer referenced is dropped from the heap.                     *)
(*  - generateId() is a counter (nextId); Date.now() timestamps and the     *)
(*    markdown rendering of message bodies are not modelled.                *)
(*  - Each handler runs to completion (Node.js event loop), so each        *)
(*    handler is one action.                                               *)
(*  - The typing and get_rooms handlers and the GET routes read the stores *)
(*    without changing them and are left out.                              *)
(*  - What a handler emits is recorded in the out* variables, which are     *)
(*    overwritten by every action; `last` names the handler that ran.       *)
(***************************************************************************)
EXTENDS Integers, Sequences, FiniteSets, TLC

\* ---------------------------------------------------------------- inputs
Sockets == {"s1", "s2"}
IPs == {"ipA", "ipB"}
Absent == "<undefined>"
RoomIds == {"default", "team"}
Usernames == {"a", "al", "abcdefghijklmnopqrstu"}
\* the address a socket may connect from (addresses are interchangeable, so the
\* first socket is given the first address)
SockIPs == [s \in Sockets |-> IF s = "s1" THEN {"ipA"} ELSE IPs]
\* sockets are interchangeable too: they connect in this order
Before == [s \in Sockets |-> IF s = "s1" THEN {} ELSE {"s1"}]
RoomNames == {Absent}
\* req.body.ip of the mute and unmute requests
MuteInputs == {"ipA", Absent}
\* req.query.force: not given, or the string given
Forces == {Absent, "true"}
Contents == {<<>>, <<" ", "\r">>, <<"\\u3000", "h", " ">>}
\* Text. A JavaScript string is written here as an ASCII string: a UTF-16
\* code unit that is a printable ASCII character, or U+0009, U+000A, U+000C,
\* U+000D, stands for itself; a backslash is written twice; every other code
\* unit is written as a backslash, the letter u and its four upper-case
\* hexadecimal digits (U+00A0 is "\\u00A0"). Units(str) is the sequence of the
\* code units of str, each under its one-character or six-character name, so
\* Len(Units(str)) is str.length. A message content is given as such a
\* sequence.
RECURSIVE UnitsFrom(_, _)
UnitsFrom(str, i) ==
    IF i > Len(str) THEN <<>>
    ELSE IF SubSeq(str, i, i) = "\\" /\ i + 5 <= Len(str) /\ SubSeq(str, i + 1, i + 1) = "u"
    THEN <<SubSeq(str, i, i + 5)>> \o UnitsFrom(str, i + 6)
    ELSE IF SubSeq(str, i, i) = "\\" /\ i + 1 <= Len(str) /\ SubSeq(str, i + 1, i + 1) = "\\"
    THEN <<"\\">> \o UnitsFrom(str, i + 2)
    ELSE <<SubSeq(str, i, i)>> \o UnitsFrom(str, i + 1)
\* str holds no backslash: every character of it is one code unit
Plain(str) == \A i \in 1..Len(str) : SubSeq(str, i, i) # "\\"
Units(str) ==
    IF Plain(str) THEN [i \in 1..Len(str) |-> SubSeq(str, i, i)] ELSE UnitsFrom(str, 1)
\* str.length
length(str) == IF Plain(str) THEN Len(str) ELSE Len(UnitsFrom(str, 1))

\* The 25 code units String.prototype.trim strips, WhiteSpace and
\* LineTerminator of ECMAScript: U+0009, U+000A, U+000B, U+000C, U+000D,
\* U+0020, U+00A0, U+1680, U+2000 to U+200A, U+2028, U+2029, U+202F, U+205F,
\* U+3000, U+FEFF. U+000B is also listed as the character itself.
Whitespace ==
    {" ", "\t", "\n", "\r", "\f", "\\u000B", "",
     "\\u00A0", "\\u1680",
     "\\u2000", "\\u2001", "\\u2002", "\\u2003", "\\u2004", "\\u2005",
     "\\u2006", "\\u2007", "\\u2008", "\\u2009", "\\u200A",
     "\\u2028", "\\u2029", "\\u202F", "\\u205F", "\\u3000", "\\uFEFF"}

\* Number of identifiers generateId() may hand out in one run.
MaxId == 4

\* slice(-50)
HistoryLimit == 50
\* username.length < 2 || username.length > 20
MinNameLen == 2
MaxNameLen == 20

VARIABLES
    conn,        \* socket -> "none" | "connected" | "closed"
    addr,        \* socket -> socket.handshake.address
    sio,         \* socket -> set of socket.io rooms the socket has joined
    users,       \* Map socket.id -> user object (an object id)
    objs,        \* heap: object id -> user record
    rooms,       \* Map roomId -> [name, users]
    messages,    \* Map roomId -> sequence of messages
    mutedIPs,    \* Set of addresses
    nextId,      \* next value of generateId()
    idLimit,     \* the last identifier generateId() may hand out in this run
    last,        \* the handler that ran last, its arguments and its outcome
    outMsg,      \* 'message' events emitted by the last handler
    outErr,      \* 'error' events emitted by the last handler
    outHist,     \* 'message_history' events emitted by the last handler
    outUserList, \* 'user_list' events emitted by the last handler
    outRoomList, \* 'room_list' events emitted by the last handler
    outEv        \* room_created / room_deleted / kicked_from_room / room_joined

store == <<conn, addr, sio, users, objs, rooms, messages, mutedIPs, nextId, idLimit>>
vars == <<conn, addr, sio, users, objs, rooms, messages, mutedIPs, nextId, idLimit,
          last, outMsg, outErr, outHist, outUserList, outRoomList, outEv>>

\* ---------------------------------------------------------------- helpers
Min(a, b) == IF a < b THEN a ELSE b
Max(a, b) == IF a > b THEN a ELSE b

MapSet(f, k, v) == [x \in DOMAIN f \cup {k} |-> IF x = k THEN v ELSE f[x]]
MapDelete(f, k) == [x \in DOMAIN f \ {k} |-> f[x]]

RECURSIVE SelectIds(_, _)
\* Array.filter on an array of object ids
SelectIds(seq, keep) ==
    IF seq = <<>> THEN <<>>
    ELSE IF Head(seq) \in keep THEN <<Head(seq)>> \o SelectIds(Tail(seq), keep)
         ELSE SelectIds(Tail(seq), keep)

Range(seq) == {seq[i] : i \in 1..Len(seq)}

\* String.prototype.trim on a sequence of code units
RECURSIVE TrimLeft(_)
TrimLeft(c) == IF c # <<>> /\ Head(c) \in Whitespace THEN TrimLeft(Tail(c)) ELSE c
RECURSIVE TrimRight(_)
TrimRight(c) ==
    IF c # <<>> /\ c[Len(c)] \in Whitespace THEN TrimRight(SubSeq(c, 1, Len(c) - 1)) ELSE c
Trim(c) == TrimRight(TrimLeft(c))

\* the room ids with roomId.trim() === ''
BlankIds == {id \in STRING : Trim(Units(id)) = <<>>}

\* JavaScript truthiness of a string or undefined
Truthy(x) == x \notin {Absent, ""}

\* generateId(): the k-th identifier drawn by the running handler
generateId(k) == nextId + k
CanGenerate(n) == nextId + n <= idLimit + 1

\* Array.prototype.slice(-50)
MutSliceFirst(h) == SubSeq(h, 1, Min(Len(h), HistoryLimit))
Slice50(h) == SubSeq(h, Max(1, Len(h) - HistoryLimit + 1), Len(h))

\* the sockets a socket.io room emit reaches
Audience(sioF, connF, room) == {t \in Sockets : connF[t] = "connected" /\ room \in sioF[t]}
Everyone(connF) == {t \in Sockets : connF[t] = "connected"}

\* room.users.find(u => u.socketId === socket.id)
HasSocket(heap, room, s) == \E i \in 1..Len(room.users) : heap[room.users[i]].socketId = s

\* objects still referenced from `users` or from a room's users array
Live(usersF, roomsF) ==
    {usersF[s] : s \in DOMAIN usersF} \cup UNION {Range(roomsF[r].users) : r \in DOMAIN roomsF}
Collect(heap, usersF, roomsF) == [o \in DOMAIN heap \cap Live(usersF, roomsF) |-> heap[o]]

\* createRoom(roomId, roomName)
createRoom(roomsF, roomId, roomName) ==
    IF roomId \notin DOMAIN roomsF
    THEN MapSet(roomsF, roomId,
                [name |-> IF roomName = Absent \/ roomName = "" THEN roomId ELSE roomName,
                 users |-> <<>>])
    ELSE roomsF
MutCreateRoomNoHistory(roomsF, msgsF, roomId) == msgsF
createRoomMessages(roomsF, msgsF, roomId) ==
    IF roomId \notin DOMAIN roomsF THEN MapSet(msgsF, roomId, <<>>) ELSE msgsF

\* messages.get(roomId)?.push(m)
MutPushNothing(msgsF, roomId, m) == msgsF
MutPushCreatesHistory(msgsF, roomId, m) ==
    IF roomId \in DOMAIN msgsF THEN [msgsF EXCEPT ![roomId] = Append(@, m)]
    ELSE MapSet(msgsF, roomId, <<m>>)
Push(msgsF, roomId, m) ==
    IF roomId \in DOMAIN msgsF THEN [msgsF EXCEPT ![roomId] = Append(@, m)] ELSE msgsF

\* payload of broadcastRoomList()
roomListPayload(roomsF) ==
    [r \in DOMAIN roomsF |-> [name |-> roomsF[r].name, userCount |-> Len(roomsF[r].users)]]
broadcastRoomList(roomsF, connF) ==
    {[to |-> t, list |-> roomListPayload(roomsF)] : t \in Everyone(connF)}

\* updateUserList(roomId)
userListPayload(heap, room) ==
    [i \in 1..Len(room.users) |->
        [id |-> room.users[i], username |-> heap[room.users[i]].username,
         ip |-> heap[room.users[i]].ip, isMuted |-> heap[room.users[i]].isMuted]]
updateUserList(heap, roomsF, sioF, connF, roomId) ==
    IF roomId \in DOMAIN roomsF
    THEN {[to |-> t, room |-> roomId, list |-> userListPayload(heap, roomsF[roomId])] :
            t \in Audience(sioF, connF, roomId)}
    ELSE {}

Message(id, type, username, content, room, ip) ==
    [id |-> id, type |-> type, username |-> username, content |-> content,
     room |-> room, userIP |-> ip]

Op(op, sock, room, arg, res) ==
    [op |-> op, sock |-> sock, room |-> room, arg |-> arg, res |-> res]

\* socket.emit('error', text); return
Reject(op, s, room, arg, text) ==
    /\ UNCHANGED store
    /\ last' = Op(op, s, room, arg, "error")
    /\ outErr' = {[to |-> s, text |-> text]}
    /\ outMsg' = {} /\ outHist' = {} /\ outUserList' = {} /\ outRoomList' = {} /\ outEv' = {}

\* res.status(code).json({error}); return
RestReject(op, room, arg, code) ==
    /\ UNCHANGED store
    /\ last' = Op(op, "rest", room, arg, code)
    /\ outErr' = {} /\ outMsg' = {} /\ outHist' = {} /\ outUserList' = {}
    /\ outRoomList' = {} /\ outEv' = {}

\* ---------------------------------------------------------------- initial state
Init ==
    /\ conn = [s \in Sockets |-> "none"]
    /\ addr = [s \in Sockets |-> Absent]
    /\ sio = [s \in Sockets |-> {}]
    /\ users = << >>
    /\ objs = << >>
    /\ rooms = [r \in {"default"} |-> [name |-> "public", users |-> <<>>]]
    /\ messages = [r \in {"default"} |-> <<>>]
    /\ mutedIPs = {}
    /\ nextId = 1
    /\ idLimit = MaxId
    /\ last = Op("init", "rest", Absent, Absent, "ok")
    /\ outMsg = {} /\ outErr = {} /\ outHist = {} /\ outUserList = {}
    /\ outRoomList = {} /\ outEv = {}

\* io.on('connection')
Connect(s, ip) ==
    /\ conn[s] = "none"
    /\ \A t \in Before[s] : conn[t] # "none"
    /\ conn' = [conn EXCEPT ![s] = "connected"]
    /\ addr' = [addr EXCEPT ![s] = ip]
    /\ UNCHANGED <<sio, users, objs, rooms, messages, mutedIPs, nextId, idLimit>>
    /\ last' = Op("connection", s, Absent, ip, "ok")
    /\ outMsg' = {} /\ outErr' = {} /\ outHist' = {} /\ outUserList' = {}
    /\ outRoomList' = {} /\ outEv' = {}

\* the username test of socket.on('join')
MutUsernameAnyLength(username) == username # Absent /\ username # ""
validUsername(username) ==
    /\ username # Absent /\ username # ""
    /\ LET n == length(username) IN n >= MinNameLen /\ n <= MaxNameLen

\* socket.on('join')
join(s, username, roomIn) ==
    /\ conn[s] = "connected"
    /\ LET roomId == IF roomIn = Absent THEN "default" ELSE roomIn IN
       IF ~validUsername(username)
       THEN Reject("join", s, Absent, username, "username length")
       ELSE
         LET isIPMuted == addr[s] \in mutedIPs
             uid == generateId(0)
             user == [username |-> username, socketId |-> s, ip |-> addr[s],
                      isMuted |-> isIPMuted, currentRoom |-> roomId]
             heap1 == MapSet(objs, uid, user)
             users1 == MapSet(users, s, uid)
             rooms1 == createRoom(rooms, roomId, IF roomId = "default" THEN "public" ELSE roomId)
             msgs1 == createRoomMessages(rooms, messages, roomId)
             sio1 == [sio EXCEPT ![s] = @ \cup {roomId}]
             rooms2 == IF HasSocket(heap1, rooms1[roomId], s) THEN rooms1
                       ELSE [rooms1 EXCEPT ![roomId].users = Append(@, uid)]
             joinMessage == Message(generateId(1), "join", "system", username, roomId, addr[s])
             msgs2 == Push(msgs1, roomId, joinMessage)
             notice == Message(generateId(2), "admin", "system", "muted", Absent, Absent)
             heap2 == Collect(heap1, users1, rooms2)
         IN
         /\ CanGenerate(IF isIPMuted THEN 3 ELSE 2)
         /\ users' = users1
         /\ objs' = heap2
         /\ rooms' = rooms2
         /\ messages' = msgs2
         /\ sio' = sio1
         /\ nextId' = nextId + (IF isIPMuted THEN 3 ELSE 2)
         /\ UNCHANGED <<conn, addr, mutedIPs, idLimit>>
         /\ last' = Op("join", s, roomId, username, "ok")
         /\ outMsg' = {[to |-> t, msg |-> joinMessage] : t \in Audience(sio1, conn, roomId) \cup {s}}
                      \cup (IF isIPMuted THEN {[to |-> s, msg |-> notice]} ELSE {})
         /\ outHist' = {[to |-> s, room |-> roomId, hist |-> Slice50(msgs2[roomId]),
                         stored |-> Len(msgs2[roomId])]}
         /\ outUserList' = updateUserList(heap2, rooms2, sio1, conn, roomId)
         /\ outRoomList' = broadcastRoomList(rooms2, conn)
         /\ outErr' = {} /\ outEv' = {}

\* socket.on('join_room')
join_room(s, roomId) ==
    /\ conn[s] = "connected"
    /\ IF s \notin DOMAIN users THEN Reject("join_room", s, roomId, Absent, "join first")
       ELSE IF roomId \notin DOMAIN rooms
       THEN Reject("join_room", s, roomId, Absent, "room not found")
       ELSE
         LET uid == users[s]
             user == objs[uid]
             old == user.currentRoom
             \* if (user.currentRoom) { leave it and say so }
             leaves == Truthy(old)
             n == IF leaves THEN 2 ELSE 1
             sio1 == IF leaves THEN [sio EXCEPT ![s] = @ \ {old}] ELSE sio
             leaveMessage == Message(generateId(0), "leave", "system", user.username, old, user.ip)
             msgs1 == IF leaves THEN Push(messages, old, leaveMessage) ELSE messages
             heap1 == [objs EXCEPT ![uid].currentRoom = roomId]
             sio2 == [sio1 EXCEPT ![s] = @ \cup {roomId}]
             rooms1 == IF HasSocket(heap1, rooms[roomId], s) THEN rooms
                       ELSE [rooms EXCEPT ![roomId].users = Append(@, uid)]
             joinMessage == Message(generateId(n - 1), "join", "system", user.username, roomId, user.ip)
             msgs2 == Push(msgs1, roomId, joinMessage)
         IN
         /\ CanGenerate(n)
         /\ objs' = heap1
         /\ rooms' = rooms1
         /\ messages' = msgs2
         /\ sio' = sio2
         /\ nextId' = nextId + n
         /\ UNCHANGED <<conn, addr, users, mutedIPs, idLimit>>
         /\ last' = Op("join_room", s, roomId, old, "ok")
         /\ outMsg' = (IF leaves
                       THEN {[to |-> t, msg |-> leaveMessage] : t \in Audience(sio1, conn, old) \ {s}}
                       ELSE {})
                      \cup {[to |-> t, msg |-> joinMessage] :
                              t \in Audience(sio2, conn, roomId) \cup {s}}
         /\ outHist' = {[to |-> s, room |-> roomId, hist |-> Slice50(msgs2[roomId]),
                         stored |-> Len(msgs2[roomId])]}
         /\ outUserList' = updateUserList(heap1, rooms1, sio2, conn, roomId)
         /\ outEv' = {[to |-> s, ev |-> "room_joined", room |-> roomId]}
         /\ outErr' = {} /\ outRoomList' = {}

\* rooms.has(roomId), the conflict test of both room creation paths
MutRoomNeverExists(roomsF, roomId) == FALSE
roomExists(roomsF, roomId) == roomId \in DOMAIN roomsF

\* socket.on('create_room')
create_room(s, roomId, roomName) ==
    /\ conn[s] = "connected"
    /\ IF s \notin DOMAIN users THEN Reject("create_room", s, roomId, Absent, "join first")
       ELSE IF roomId = Absent \/ roomId \in BlankIds
       THEN Reject("create_room", s, roomId, Absent, "room id empty")
       ELSE IF objs[users[s]].isMuted
       THEN Reject("create_room", s, roomId, Absent, "muted")
       ELSE IF objs[users[s]].ip \in mutedIPs
       THEN Reject("create_room", s, roomId, Absent, "ip muted")
       ELSE IF roomExists(rooms, roomId)
       THEN Reject("create_room", s, roomId, Absent, "room exists")
       ELSE
         /\ rooms' = createRoom(rooms, roomId, IF roomName \in {Absent, ""} THEN roomId ELSE roomName)
         /\ messages' = createRoomMessages(rooms, messages, roomId)
         /\ UNCHANGED <<conn, addr, sio, users, objs, mutedIPs, nextId, idLimit>>
         /\ last' = Op("create_room", s, roomId, Absent, "ok")
         /\ outEv' = {[to |-> s, ev |-> "room_created", room |-> roomId]}
         /\ outRoomList' = broadcastRoomList(rooms', conn)
         /\ outMsg' = {} /\ outErr' = {} /\ outHist' = {} /\ outUserList' = {}

\* the guards of socket.on('delete_room'): the error it replies with, or "ok"
MutDeleteGuardNoEmptyCheck(s, roomId) ==
    IF s \notin DOMAIN users THEN "join first"
    ELSE IF roomId = Absent \/ roomId = "" THEN "room id empty"
    ELSE IF roomId = "default" THEN "default room"
    ELSE IF roomId \notin DOMAIN rooms THEN "room not found"
    ELSE "ok"
deleteRoomGuard(s, roomId) ==
    IF s \notin DOMAIN users THEN "join first"
    ELSE IF roomId = Absent \/ roomId = "" THEN "room id empty"
    ELSE IF roomId = "default" THEN "default room"
    ELSE IF roomId \notin DOMAIN rooms THEN "room not found"
    ELSE IF Len(rooms[roomId].users) > 0 THEN "room not empty"
    ELSE "ok"

\* socket.on('delete_room')
delete_room(s, roomId) ==
    /\ conn[s] = "connected"
    /\ IF deleteRoomGuard(s, roomId) # "ok"
       THEN Reject("delete_room", s, roomId, Absent, deleteRoomGuard(s, roomId))
       ELSE
         /\ rooms' = MapDelete(rooms, roomId)
         /\ messages' = MapDelete(messages, roomId)
         /\ objs' = Collect(objs, users, rooms')
         /\ UNCHANGED <<conn, addr, sio, users, mutedIPs, nextId, idLimit>>
         /\ last' = Op("delete_room", s, roomId, Absent, "ok")
         /\ outRoomList' = broadcastRoomList(rooms', conn)
         /\ outEv' = {[to |-> s, ev |-> "room_deleted", room |-> roomId]}
         /\ outMsg' = {} /\ outErr' = {} /\ outHist' = {} /\ outUserList' = {}

\* the muted check of socket.on('send_message')
MutSenderNeverMuted(s) == FALSE
senderMuted(s) == objs[users[s]].isMuted

\* socket.on('send_message')
send_message(s, content, roomIn) ==
    /\ conn[s] = "connected"
    /\ LET roomId == IF roomIn = Absent THEN "default" ELSE roomIn
           arg == IF Trim(content) = <<>> THEN "blank" ELSE "text"
       IN
       IF s \notin DOMAIN users THEN Reject("send_message", s, Absent, arg, "join first")
       ELSE IF senderMuted(s) THEN Reject("send_message", s, Absent, arg, "muted")
       ELSE IF Trim(content) = <<>>
       THEN /\ UNCHANGED store
            /\ last' = Op("send_message", s, Absent, arg, "noop")
            /\ outMsg' = {} /\ outErr' = {} /\ outHist' = {} /\ outUserList' = {}
            /\ outRoomList' = {} /\ outEv' = {}
       ELSE
         LET user == objs[users[s]]
             message == Message(generateId(0), "text", user.username, Trim(content),
                                roomId, user.ip)
         IN
         /\ CanGenerate(1)
         /\ messages' = Push(messages, roomId, message)
         /\ nextId' = nextId + 1
         /\ UNCHANGED <<conn, addr, sio, users, objs, rooms, mutedIPs, idLimit>>
         /\ last' = Op("send_message", s, roomIn, arg, "ok")
         /\ outMsg' = {[to |-> t, msg |-> message] : t \in Audience(sio, conn, roomId)}
         /\ outErr' = {} /\ outHist' = {} /\ outUserList' = {}
         /\ outRoomList' = {} /\ outEv' = {}

\* room.users.splice(userIndex, 1) in every room holding the socket
MutSpliceCurrentRoomOnly(roomsF, heap, s) ==
    [r \in DOMAIN roomsF |->
       IF r = heap[users[s]].currentRoom
       THEN [roomsF[r] EXCEPT !.users = SelectIds(@, {o \in Range(@) : heap[o].socketId # s})]
       ELSE roomsF[r]]
spliceSocket(roomsF, heap, s) ==
    [r \in DOMAIN roomsF |->
       [roomsF[r] EXCEPT !.users = SelectIds(@, {o \in Range(@) : heap[o].socketId # s})]]

\* socket.on('disconnect')
disconnect(s) ==
    /\ conn[s] = "connected"
    /\ LET conn1 == [conn EXCEPT ![s] = "closed"]
           sio1 == [sio EXCEPT ![s] = {}]
       IN
       IF s \notin DOMAIN users
       THEN /\ conn' = conn1 /\ sio' = sio1
            /\ UNCHANGED <<addr, users, objs, rooms, messages, mutedIPs, nextId, idLimit>>
            /\ last' = Op("disconnect", s, Absent, Absent, "ok")
            /\ outMsg' = {} /\ outErr' = {} /\ outHist' = {} /\ outUserList' = {}
            /\ outRoomList' = {} /\ outEv' = {}
       ELSE
         LET user == objs[users[s]]
             cur == user.currentRoom
             rooms1 == spliceSocket(rooms, objs, s)
             said == cur \in DOMAIN rooms /\ HasSocket(objs, rooms[cur], s)
             leaveMessage == Message(generateId(0), "leave", "system", user.username, cur, user.ip)
             users1 == MapDelete(users, s)
         IN
         /\ said => CanGenerate(1)
         /\ conn' = conn1 /\ sio' = sio1
         /\ rooms' = rooms1
         /\ users' = users1
         /\ objs' = Collect(objs, users1, rooms1)
         /\ messages' = IF said THEN Push(messages, cur, leaveMessage) ELSE messages
         /\ nextId' = IF said THEN nextId + 1 ELSE nextId
         /\ UNCHANGED <<addr, mutedIPs, idLimit>>
         /\ last' = Op("disconnect", s, cur, Absent, "ok")
         /\ outMsg' = IF said
                      THEN {[to |-> t, msg |-> leaveMessage] : t \in Audience(sio1, conn1, cur)}
                      ELSE {}
         /\ outUserList' = IF said THEN updateUserList(objs, rooms1, sio1, conn1, cur) ELSE {}
         /\ outRoomList' = broadcastRoomList(rooms1, conn1)
         /\ outErr' = {} /\ outHist' = {} /\ outEv' = {}

\* ---------------------------------------------------------------- REST handlers

\* users.forEach(user => { if (user.ip === ip) user.isMuted = flag; })
MutSweepNothing(heap, usersF, ip, flag) == heap
sweep(heap, usersF, ip, flag) ==
    [o \in DOMAIN heap |->
        IF o \in {usersF[s] : s \in DOMAIN usersF} /\ heap[o].ip = ip
        THEN [heap[o] EXCEPT !.isMuted = flag]
        ELSE heap[o]]

\* POST /api/mute-ip
mute_ip(ip) ==
    IF ~Truthy(ip) THEN RestReject("mute_ip", Absent, ip, "400")
    ELSE
      /\ mutedIPs' = mutedIPs \cup {ip}
      /\ objs' = sweep(objs, users, ip, TRUE)
      /\ UNCHANGED <<conn, addr, sio, users, rooms, messages, nextId, idLimit>>
      /\ last' = Op("mute_ip", "rest", Absent, ip, "200")
      /\ outMsg' = {} /\ outErr' = {} /\ outHist' = {} /\ outUserList' = {}
      /\ outRoomList' = {} /\ outEv' = {}

\* POST /api/unmute-ip
unmute_ip(ip) ==
    IF ~Truthy(ip) THEN RestReject("unmute_ip", Absent, ip, "400")
    ELSE
      /\ mutedIPs' = mutedIPs \ {ip}
      /\ objs' = sweep(objs, users, ip, FALSE)
      /\ UNCHANGED <<conn, addr, sio, users, rooms, messages, nextId, idLimit>>
      /\ last' = Op("unmute_ip", "rest", Absent, ip, "200")
      /\ outMsg' = {} /\ outErr' = {} /\ outHist' = {} /\ outUserList' = {}
      /\ outRoomList' = {} /\ outEv' = {}

\* POST /api/broadcast
broadcast(message) ==
    IF ~Truthy(message) THEN RestReject("broadcast", Absent, Absent, "400")
    ELSE
      LET adminMessage == Message(generateId(0), "admin", "admin", message, Absent, Absent) IN
      /\ CanGenerate(1)
      /\ messages' = [r \in DOMAIN messages |->
                        IF r \in DOMAIN rooms THEN Append(messages[r], adminMessage)
                        ELSE messages[r]]
      /\ nextId' = nextId + 1
      /\ UNCHANGED <<conn, addr, sio, users, objs, rooms, mutedIPs, idLimit>>
      /\ last' = Op("broadcast", "rest", Absent, Absent, "200")
      /\ outMsg' = {[to |-> t, msg |-> adminMessage] : t \in Everyone(conn)}
      /\ outErr' = {} /\ outHist' = {} /\ outUserList' = {} /\ outRoomList' = {} /\ outEv' = {}

\* POST /api/rooms
api_create_room(roomId, roomName, adminToken, clientIP) ==
    IF ~Truthy(roomId) THEN RestReject("api_create_room", roomId, Absent, "400")
    ELSE IF LET n == length(roomId) IN n < MinNameLen \/ n > MaxNameLen
    THEN RestReject("api_create_room", roomId, Absent, "400")
    ELSE IF roomExists(rooms, roomId) THEN RestReject("api_create_room", roomId, Absent, "400")
    ELSE IF adminToken # "admin123"
            /\ (\/ clientIP \in mutedIPs
                \/ \E s \in DOMAIN users : objs[users[s]].ip = clientIP /\ objs[users[s]].isMuted)
    THEN RestReject("api_create_room", roomId, Absent, "403")
    ELSE
      /\ rooms' = createRoom(rooms, roomId, IF Truthy(roomName) THEN roomName ELSE roomId)
      /\ messages' = createRoomMessages(rooms, messages, roomId)
      /\ UNCHANGED <<conn, addr, sio, users, objs, mutedIPs, nextId, idLimit>>
      /\ last' = Op("api_create_room", "rest", roomId, Absent, "200")
      /\ outRoomList' = broadcastRoomList(rooms', conn)
      /\ outMsg' = {} /\ outErr' = {} /\ outHist' = {} /\ outUserList' = {} /\ outEv' = {}

\* (messages.get(roomId) || [])
History(msgsF, roomId) == IF roomId \in DOMAIN msgsF THEN msgsF[roomId] ELSE <<>>

\* The room.users.forEach loop of DELETE /api/rooms/:roomId, one user per step.
\* st = [objs, sio, messages, n, outMsg, outHist, outEv]; n counts generateId() calls.
RECURSIVE evictAll(_, _, _)
evictAll(us, roomId, st) ==
    IF us = <<>> THEN st
    ELSE
      LET u == Head(us)
          sock == st.objs[u].socketId
          there == conn[sock] = "connected"
          kickMessage == Message(generateId(st.n), "admin", "system", "room deleted",
                                 Absent, Absent)
          sio1 == [st.sio EXCEPT ![sock] = (@ \ {roomId}) \cup {"default"}]
          joinMessage == Message(generateId(st.n + 1), "join", "system",
                                 st.objs[u].username, "default", Absent)
          st1 ==
            IF ~there THEN [st EXCEPT !.n = @ + 1]
            ELSE [objs |-> [st.objs EXCEPT ![u].currentRoom = "default"],
                  sio |-> sio1,
                  messages |-> Push(st.messages, "default", joinMessage),
                  n |-> st.n + 2,
                  outMsg |-> st.outMsg \cup {[to |-> sock, msg |-> kickMessage]}
                             \cup {[to |-> t, msg |-> joinMessage] :
                                     t \in Audience(sio1, conn, "default") \cup {sock}},
                  outHist |-> st.outHist \cup
                              {[to |-> sock, room |-> "default",
                                hist |-> Slice50(History(st.messages, "default")),
                                stored |-> Len(History(st.messages, "default"))]},
                  outEv |-> st.outEv \cup {[to |-> sock, ev |-> "room_deleted", room |-> roomId]}]
      IN evictAll(Tail(us), roomId, st1)

\* the guards of DELETE /api/rooms/:roomId: the status it replies with
MutApiDeleteNoDefault(roomId, force) ==
    IF roomId \notin DOMAIN rooms THEN "404"
    ELSE IF Len(rooms[roomId].users) > 0 /\ ~Truthy(force) THEN "400"
    ELSE "200"
apiDeleteGuard(roomId, force) ==
    IF roomId = "default" THEN "400"
    ELSE IF roomId \notin DOMAIN rooms THEN "404"
    ELSE IF Len(rooms[roomId].users) > 0 /\ ~Truthy(force) THEN "400"
    ELSE "200"

\* DELETE /api/rooms/:roomId
api_delete_room(roomId, force) ==
    IF apiDeleteGuard(roomId, force) # "200"
    THEN RestReject("api_delete_room", roomId, force, apiDeleteGuard(roomId, force))
    ELSE
      LET st == evictAll(rooms[roomId].users, roomId,
                         [objs |-> objs, sio |-> sio, messages |-> messages, n |-> 0,
                          outMsg |-> {}, outHist |-> {}, outEv |-> {}])
          rooms1 == MapDelete(rooms, roomId)
      IN
      /\ CanGenerate(st.n)
      /\ rooms' = rooms1
      /\ messages' = MapDelete(st.messages, roomId)
      /\ objs' = Collect(st.objs, users, rooms1)
      /\ sio' = st.sio
      /\ nextId' = nextId + st.n
      /\ UNCHANGED <<conn, addr, users, mutedIPs, idLimit>>
      /\ last' = Op("api_delete_room", "rest", roomId, force, "200")
      /\ outMsg' = st.outMsg /\ outHist' = st.outHist /\ outEv' = st.outEv
      /\ outRoomList' = broadcastRoomList(rooms1, conn)
      /\ outErr' = {} /\ outUserList' = {}

\* The room.users.forEach loop of POST /api/rooms/:roomId/kick-users.
\* st = [objs, sio, n, outMsg, outHist, outEv]
RECURSIVE kickAll(_, _, _)
kickAll(us, roomId, st) ==
    IF us = <<>> THEN st
    ELSE
      LET u == Head(us)
          sock == st.objs[u].socketId
          there == conn[sock] = "connected"
          kickMessage == Message(generateId(st.n), "admin", "system", "kicked", Absent, Absent)
          st1 ==
            IF ~there THEN [st EXCEPT !.n = @ + 1]
            ELSE [objs |-> [st.objs EXCEPT ![u].currentRoom = "default"],
                  sio |-> [st.sio EXCEPT ![sock] = (@ \ {roomId}) \cup {"default"}],
                  n |-> st.n + 1,
                  outMsg |-> st.outMsg \cup {[to |-> sock, msg |-> kickMessage]},
                  outHist |-> st.outHist \cup
                              {[to |-> sock, room |-> "default",
                                hist |-> Slice50(History(messages, "default")),
                                stored |-> Len(History(messages, "default"))]},
                  outEv |-> st.outEv \cup
                            {[to |-> sock, ev |-> "kicked_from_room", room |-> roomId]}]
      IN kickAll(Tail(us), roomId, st1)

\* POST /api/rooms/:roomId/kick-users
kick_users(roomId) ==
    IF roomId \notin DOMAIN rooms THEN RestReject("kick_users", roomId, Absent, "404")
    ELSE IF Len(rooms[roomId].users) = 0 THEN RestReject("kick_users", roomId, Absent, "400")
    ELSE
      LET st == kickAll(rooms[roomId].users, roomId,
                        [objs |-> objs, sio |-> sio, n |-> 0,
                         outMsg |-> {}, outHist |-> {}, outEv |-> {}])
          rooms1 == [rooms EXCEPT ![roomId].users = <<>>]
          heap1 == Collect(st.objs, users, rooms1)
      IN
      /\ CanGenerate(st.n)
      /\ rooms' = rooms1
      /\ objs' = heap1
      /\ sio' = st.sio
      /\ nextId' = nextId + st.n
      /\ UNCHANGED <<conn, addr, users, messages, mutedIPs, idLimit>>
      /\ last' = Op("kick_users", "rest", roomId, Absent, "200")
      /\ outMsg' = st.outMsg /\ outHist' = st.outHist /\ outEv' = st.outEv
      /\ outUserList' = updateUserList(heap1, rooms1, st.sio, conn, "default")
      /\ outRoomList' = broadcastRoomList(rooms1, conn)
      /\ outErr' = {}

\* One handler run, for a request arriving on one of the sockets S or over
\* REST, naming a room of ids (channel requests), of joinIds (join) or of
\* restIds (REST requests) and a room name of names.
StepOn(S, ids, joinIds, restIds, names) ==
    \/ \E s \in S : \E ip \in SockIPs[s] : Connect(s, ip)
    \/ \E s \in S, u \in Usernames, r \in joinIds : join(s, u, r)
    \/ \E s \in S, r \in ids : join_room(s, r)
    \/ \E s \in S, r \in ids \cup {""}, n \in names : create_room(s, r, n)
    \/ \E s \in S, r \in ids : delete_room(s, r)
    \/ \E s \in S, c \in Contents, r \in {"team", Absent} : send_message(s, c, r)
    \/ \E s \in S : disconnect(s)
    \/ \E ip \in MuteInputs : mute_ip(ip)
    \/ \E ip \in MuteInputs : unmute_ip(ip)
    \/ \E m \in {Absent, "note"} : broadcast(m)
    \/ \E r \in restIds, n \in names, k \in {Absent, "admin123"}, ip \in {"ipA"} :
          api_create_room(r, n, k, ip)
    \/ \E r \in ids, f \in Forces : api_delete_room(r, f)
    \/ \E r \in ids : kick_users(r)
Step(S) == StepOn(S, RoomIds, {"team", Absent}, RoomIds \cup {"x"}, RoomNames)

Next == Step(Sockets)
Spec == Init /\ [][Next]_vars

\* One connection only, with one more identifier to draw.
InitSolo ==
    /\ conn = [s \in Sockets |-> "none"]
    /\ addr = [s \in Sockets |-> Absent]
    /\ sio = [s \in Sockets |-> {}]
    /\ users = << >>
    /\ objs = << >>
    /\ rooms = [r \in {"default"} |-> [name |-> "public", users |-> <<>>]]
    /\ messages = [r \in {"default"} |-> <<>>]
    /\ mutedIPs = {}
    /\ nextId = 1
    /\ idLimit = MaxId + 1
    /\ last = Op("init", "rest", Absent, Absent, "ok")
    /\ outMsg = {} /\ outErr = {} /\ outHist = {} /\ outUserList = {}
    /\ outRoomList = {} /\ outEv = {}
NextSolo == Step({"s1"})
SpecSolo == InitSolo /\ [][NextSolo]_vars

\* A server whose default room already holds n administrative broadcasts: the
\* state after n accepted POST /api/broadcast requests with nobody connected.
PreLens == {0, HistoryLimit - 1, HistoryLimit, HistoryLimit + 1}
InitHist ==
    \E n \in PreLens :
      /\ conn = [s \in Sockets |-> "none"]
      /\ addr = [s \in Sockets |-> Absent]
      /\ sio = [s \in Sockets |-> {}]
      /\ users = << >>
      /\ objs = << >>
      /\ rooms = [r \in {"default"} |-> [name |-> "public", users |-> <<>>]]
      /\ messages = [r \in {"default"} |->
                       [i \in 1..n |-> Message(i, "admin", "admin", "note", Absent, Absent)]]
      /\ mutedIPs = {}
      /\ nextId = n + 1
      /\ idLimit = n + MaxId
      /\ last = IF n = 0 THEN Op("init", "rest", Absent, Absent, "ok")
                ELSE Op("broadcast", "rest", Absent, Absent, "200")
      /\ outMsg = {} /\ outErr = {} /\ outHist = {} /\ outUserList = {}
      /\ outRoomList = {} /\ outEv = {}
NextHist == Step({"s1"})
SpecHist == InitHist /\ [][NextHist]_vars

\* One connection, whose requests name rooms with a one-character id (and,
\* over REST, a 21-character id), join a room with the empty id, and give
\* room names.
WideIds == RoomIds \cup {"x"}
WideRestIds == WideIds \cup {"abcdefghijklmnopqrstu"}
WideNames == RoomNames \cup {"Team"}
InitRooms ==
    /\ conn = [s \in Sockets |-> "none"]
    /\ addr = [s \in Sockets |-> Absent]
    /\ sio = [s \in Sockets |-> {}]
    /\ users = << >>
    /\ objs = << >>
    /\ rooms = [r \in {"default"} |-> [name |-> "public", users |-> <<>>]]
    /\ messages = [r \in {"default"} |-> <<>>]
    /\ mutedIPs = {}
    /\ nextId = 1
    /\ idLimit = MaxId - 1
    /\ last = Op("init", "rest", Absent, Absent, "ok")
    /\ outMsg = {} /\ outErr = {} /\ outHist = {} /\ outUserList = {}
    /\ outRoomList = {} /\ outEv = {}
NextRooms == StepOn({"s1"}, WideIds, {"team", "", Absent}, WideRestIds, WideNames)
SpecRooms == InitRooms /\ [][NextRooms]_vars

\* ---------------------------------------------------------------- properties
\* the rooms whose member list holds an entry for connection s
RoomsOf(s) == {r \in DOMAIN rooms : HasSocket(objs, rooms[r], s)}
\* the user bound to connection s
UserOf(s) == objs[users[s]]
\* the last handler was a deletion request (either path) that was refused
DeleteRefused == last.op \in {"delete_room", "api_delete_room"} /\ last.res \in {"error", "400"}

\* C1: every connection with a bound user is in the member list of exactly one
\* room, and that room is the user's currentRoom.
C1_OneRoomPerUser ==
    \A s \in DOMAIN users : RoomsOf(s) = {UserOf(s).currentRoom}

\* C2: the currentRoom of every bound user names a room that exists.
C2_CurrentRoomExists ==
    \A s \in DOMAIN users : UserOf(s).currentRoom \in DOMAIN rooms

\* C3: a send_message from a connection whose address is muted appends nothing
\* to any history, delivers no text message to anyone, and is answered with an
\* error to the sender.
C3_MutedCannotSend ==
    [][(last'.op = "send_message" /\ addr[last'.sock] \in mutedIPs)
        => /\ messages' = messages
           /\ \A e \in outMsg' : e.msg.type # "text"
           /\ \E e \in outErr' : e.to = last'.sock]_vars
\* a joined user on a muted address tried to send a text while another user is joined
C3_Witness ==
    /\ last.op = "send_message" /\ last.arg = "text" /\ last.res = "error"
    /\ last.sock \in DOMAIN users
    /\ addr[last.sock] \in mutedIPs
    /\ \E t \in DOMAIN users : t # last.sock

\* C4: a bound user's muted flag is set exactly when the user's address is in
\* the muted set.
C4_MutedFlagMirrorsSet ==
    \A s \in DOMAIN users : UserOf(s).isMuted <=> (UserOf(s).ip \in mutedIPs)
\* an address shared by two joined users has just been muted, and one who is not on it stays clear
C4_Witness ==
    /\ last.op = "mute_ip" /\ last.res = "200"
    /\ \E s \in DOMAIN users : \E t \in DOMAIN users \ {s} :
          UserOf(s).ip = last.arg /\ UserOf(t).ip = last.arg
          /\ UserOf(s).isMuted /\ UserOf(t).isMuted

\* C5: after a forced deletion of a non-empty room the room and its history
\* are gone, and every former member is in the member list of default, has
\* currentRoom = default and was sent the relocation notice.
C5_ForcedDeleteRelocates ==
    (last.op = "api_delete_room" /\ last.res = "200" /\ outEv # {})
    => /\ last.room \notin DOMAIN rooms
       /\ last.room \notin DOMAIN messages
       /\ \A e \in outEv :
            /\ e.ev = "room_deleted"
            /\ \E m \in outMsg : m.to = e.to /\ m.msg.type = "admin"
            /\ e.to \in DOMAIN users =>
                  /\ HasSocket(objs, rooms["default"], e.to)
                  /\ UserOf(e.to).currentRoom = "default"

\* C6: a deletion without force of a room that has members is refused on both
\* paths, and leaves every room, member list, history and user record as it was.
C6_NonEmptyDeleteRefused ==
    [][(/\ last'.op \in {"delete_room", "api_delete_room"}
        /\ ~Truthy(last'.arg)
        /\ last'.room \in DOMAIN rooms
        /\ Len(rooms[last'.room].users) > 0)
        => /\ last'.res \in {"error", "400"}
           /\ rooms' = rooms /\ messages' = messages
           /\ users' = users /\ objs' = objs]_vars
\* the channel path refused to delete a room other than default that has a member
C6_Witness ==
    /\ last.op = "delete_room" /\ last.res = "error"
    /\ last.room \in DOMAIN rooms \ {"default"}
    /\ Len(rooms[last.room].users) > 0
    /\ last.room \in DOMAIN messages

\* C7: the room default and its history exist in every reachable state.
C7_DefaultAlwaysExists ==
    "default" \in DOMAIN rooms /\ "default" \in DOMAIN messages
\* a forced REST deletion of default was attempted and refused
C7_Witness ==
    /\ last.op = "api_delete_room" /\ last.room = "default" /\ last.arg = "true"
    /\ last.res = "400"
    /\ "default" \in DOMAIN rooms

\* C8: a join on a connection that already has a bound user is not accepted:
\* the bound record, the member lists and the histories stay as they were.
C8_JoinOnlyFromConnected ==
    [][(last'.op = "join" /\ last'.sock \in DOMAIN users)
        => /\ last'.res = "error"
           /\ users' = users /\ objs' = objs
           /\ rooms' = rooms /\ messages' = messages]_vars

\* C9: right after an accepted join the joining connection is in the member
\* list of exactly one room, the room it asked for, and the room_list the join
\* broadcast reports the actual member counts.
C9_JoinPutsUserInOneRoom ==
    (last.op = "join" /\ last.res = "ok")
    => /\ RoomsOf(last.sock) = {last.room}
       /\ \A e \in outRoomList :
            /\ DOMAIN e.list = DOMAIN rooms
            /\ \A r \in DOMAIN rooms : e.list[r].userCount = Len(rooms[r].users)

\* h is an initial segment of g
IsPrefix(h, g) == Len(h) <= Len(g) /\ \A i \in 1..Len(h) : h[i] = g[i]

\* C10: a message_history event carries the last min(50, n) entries of the
\* room's stored history, oldest first, n being the number of entries stored
\* when it is sent (for join, join_room and kick-users that is the whole history
\* after the handler); and the handler leaves the entries already stored in
\* place and unaltered.
C10_HistoryIsLastFifty ==
    [][\A e \in outHist' :
        /\ e.room \in DOMAIN messages'
        /\ e.stored <= Len(messages'[e.room])
        /\ last'.op \in {"join", "join_room", "kick_users"}
             => e.stored = Len(messages'[e.room])
        /\ e.room \in DOMAIN messages => e.stored >= Len(messages[e.room])
        /\ Len(e.hist) = Min(HistoryLimit, e.stored)
        /\ \A i \in 1..Len(e.hist) :
             e.hist[i] = messages'[e.room][e.stored - Len(e.hist) + i]
        /\ e.room \in DOMAIN messages => IsPrefix(messages[e.room], messages'[e.room])]_vars
\* a room switch into a room holding more than 50 messages: 50 are delivered and
\* the earliest stored message is not among them
C10_Witness ==
    /\ last.op = "join_room" /\ last.res = "ok"
    /\ \E e \in outHist :
         /\ e.to = last.sock
         /\ e.stored > HistoryLimit
         /\ Len(e.hist) = HistoryLimit
         /\ e.hist[HistoryLimit] = messages[e.room][e.stored]
         /\ \A i \in 1..Len(e.hist) : e.hist[i] # messages[e.room][1]

\* C11: when a join is accepted for a room whose history was empty, the
\* message_history delivered to the joining connection is empty and every
\* room_list sent shows that room with a user count of 1.
C11_FirstJoinEmptyHistory ==
    [][(last'.op = "join" /\ last'.res = "ok" /\ History(messages, last'.room) = <<>>)
        => /\ \A e \in outHist' : e.to = last'.sock => e.hist = <<>>
           /\ \A e \in outRoomList' : e.list[last'.room].userCount = 1]_vars


\* C11 (amended): when a join is accepted for a room whose history was empty,
\* the message_history delivered to the joining connection holds exactly one
\* message, the join message of that user, and every room_list sent shows
\* that room with a user count of 1.
C11_FirstJoinHistoryHoldsJoin ==
    [][(last'.op = "join" /\ last'.res = "ok" /\ History(messages, last'.room) = <<>>)
        => /\ \E e \in outHist' : e.to = last'.sock
           /\ \A e \in outHist' :
                 /\ e.to = last'.sock /\ e.room = last'.room
                 /\ Len(e.hist) = 1
                 /\ e.hist[1].type = "join" /\ e.hist[1].content = last'.arg
                 /\ e.hist[1].id = nextId + 1
                 /\ e.hist = messages'[last'.room]
           /\ \E e \in outRoomList' : e.to = last'.sock
           /\ \A e \in outRoomList' : e.list[last'.room].userCount = 1]_vars
\* the first user ever has joined default and got its history and the room list
C11_Witness ==
    /\ last.op = "join" /\ last.res = "ok" /\ last.room = "default"
    /\ Len(messages["default"]) = 1
    /\ \E e \in outHist : e.to = last.sock /\ Len(e.hist) = 1
    /\ \E e \in outRoomList : e.to = last.sock /\ e.list["default"].userCount = 1


\* the last handler was a request to create a room, on the channel or over REST
CreateOps == {"create_room", "api_create_room"}

\* C12: a request to create a room whose id already exists is rejected on
\* both paths and leaves every room's name, member list and history as they
\* were, with no room list sent (on the channel, for an id that is not blank
\* and a joined unmuted requester, with the error "room exists"); an accepted
\* request creates exactly one room,
\* not present before, with no members and an empty history, and leaves the
\* other rooms untouched, so two attempts on one id add exactly one room.
C12_SecondCreateRejected ==
    [][/\ (last'.op \in CreateOps /\ last'.room \in DOMAIN rooms)
          => /\ last'.res \in {"error", "400", "403"}
             /\ rooms' = rooms /\ messages' = messages /\ objs' = objs
             /\ outRoomList' = {} /\ outEv' = {}
             /\ (last'.op = "create_room" /\ last'.sock \in DOMAIN users
                 /\ last'.room \notin BlankIds
                 /\ ~UserOf(last'.sock).isMuted /\ UserOf(last'.sock).ip \notin mutedIPs)
                => outErr' = {[to |-> last'.sock, text |-> "room exists"]}
       /\ (last'.op \in CreateOps /\ last'.res \in {"ok", "200"})
          => /\ last'.room \notin DOMAIN rooms
             /\ DOMAIN rooms' = DOMAIN rooms \cup {last'.room}
             /\ Cardinality(DOMAIN rooms') = Cardinality(DOMAIN rooms) + 1
             /\ \A r \in DOMAIN rooms : rooms'[r] = rooms[r] /\ messages'[r] = messages[r]
             /\ rooms'[last'.room].users = <<>> /\ messages'[last'.room] = <<>>]_vars
\* a joined, unmuted user asked to create a room that exists under a given
\* name, with a member and a history
C12_Witness ==
    /\ last.op = "create_room" /\ last.res = "error"
    /\ last.sock \in DOMAIN users /\ ~UserOf(last.sock).isMuted
    /\ last.room \in DOMAIN rooms \ {"default"}
    /\ rooms[last.room].name = "Team"
    /\ Len(rooms[last.room].users) > 0
    /\ Len(messages[last.room]) > 0


\* C13: a channel create_room whose id is shorter than 2 or longer than 20
\* characters is answered with an error and creates no room, and every room
\* other than default has an id of 2 to 20 characters.
C13_RoomIdLength ==
    /\ (last.op = "create_room" /\ last.room # Absent
        /\ (length(last.room) < MinNameLen \/ length(last.room) > MaxNameLen))
       => last.res = "error"
    /\ \A r \in DOMAIN rooms \ {"default"} : length(r) >= MinNameLen /\ length(r) <= MaxNameLen


\* C14: after an accepted send_message that names no room, the new text
\* message is the last entry of the history of the sender's current room, is
\* in no other room's history, and was delivered to the sender.
C14_SendDefaultsToCurrentRoom ==
    (last.op = "send_message" /\ last.res = "ok" /\ last.room = Absent)
    => LET cur == UserOf(last.sock).currentRoom IN
       /\ cur \in DOMAIN messages
       /\ Len(messages[cur]) > 0
       /\ messages[cur][Len(messages[cur])].id = nextId - 1
       /\ messages[cur][Len(messages[cur])].type = "text"
       /\ \A r \in DOMAIN messages \ {cur} :
             \A i \in 1..Len(messages[r]) : messages[r][i].id # nextId - 1
       /\ \E e \in outMsg : e.to = last.sock /\ e.msg.id = nextId - 1


\* C15: in every state where a connection is closed, the session registry has
\* no user for it, no room's member list holds an entry for it, and no user
\* object of it is left.
C15_ClosedConnectionLeavesNoTrace ==
    \A s \in Sockets :
       conn[s] = "closed"
       => /\ s \notin DOMAIN users
          /\ RoomsOf(s) = {}
          /\ \A o \in DOMAIN objs : objs[o].socketId # s
\* the disconnect of a connection that had switched rooms has just been served:
\* the switch left its leave message in one room, the disconnect appended its
\* own to the history of another, and neither room lists the connection
C15_Witness ==
    \E s \in Sockets : \E old \in DOMAIN rooms \cap DOMAIN messages :
       /\ conn[s] = "closed"
       /\ last.op = "disconnect" /\ last.sock = s
       /\ last.room \in DOMAIN messages /\ old # last.room
       /\ Len(messages[last.room]) > 0
       /\ messages[last.room][Len(messages[last.room])].type = "leave"
       /\ messages[last.room][Len(messages[last.room])].id = nextId - 1
       /\ \E i \in 1..Len(messages[old]) :
             /\ messages[old][i].type = "leave"
             /\ messages[old][i].userIP = addr[s]
       /\ rooms[old].users = <<>>


\* C16: the disconnect of a connection with a bound user appends one leave
\* message to the history of the user's current room and leaves every other
\* room's history as it was.
C16_DisconnectLeavesCurrentRoom ==
    [][(last'.op = "disconnect" /\ last'.sock \in DOMAIN users)
        => LET cur == UserOf(last'.sock).currentRoom IN
           /\ cur \in DOMAIN messages
           /\ Len(messages'[cur]) = Len(messages[cur]) + 1
           /\ messages'[cur][Len(messages'[cur])].type = "leave"
           /\ \A r \in DOMAIN messages \ {cur} : messages'[r] = messages[r]]_vars


\* C17: an accepted mute or unmute of an address sends, in the same
\* operation, a user_list to each room that holds a connected user with that
\* address, and the list sent shows the new muted flag of that user.
C17_MuteBroadcastsUserList ==
    (last.op \in {"mute_ip", "unmute_ip"} /\ last.res = "200")
    => \A s \in DOMAIN users :
          UserOf(s).ip = last.arg
          => \A r \in RoomsOf(s) :
                \E e \in outUserList :
                   /\ e.room = r
                   /\ \E i \in 1..Len(e.list) :
                         /\ e.list[i].id = users[s]
                         /\ e.list[i].isMuted = (last.op = "mute_ip")


\* C18: no message id appears in the histories of two different rooms, and a
\* step never modifies or removes an entry of the history of a room that
\* stays in existence.
C18_MessageInOneRoom ==
    [][/\ \A r1, r2 \in DOMAIN messages' :
             r1 # r2 => {messages'[r1][i].id : i \in 1..Len(messages'[r1])}
                        \cap {messages'[r2][i].id : i \in 1..Len(messages'[r2])} = {}
       /\ \A r \in DOMAIN messages \cap DOMAIN messages' :
             IsPrefix(messages[r], messages'[r])]_vars

\* C19: after an accepted join_room from room A to a different room B, the
\* leave message is the last entry of A's history and the join message the
\* last of B's, the user is out of A's member list and in B's, B's history
\* went to the sender only, and a user_list without the user went to every
\* connected member of A and a user_list to every connected member of B.
C19_SwitchMovesMembership ==
    (/\ last.op = "join_room" /\ last.res = "ok"
     /\ last.arg # last.room /\ last.arg \in DOMAIN rooms)
    => LET s == last.sock
           A == last.arg
           B == last.room
       IN
       /\ Len(messages[A]) > 0 /\ messages[A][Len(messages[A])].id = nextId - 2
       /\ messages[A][Len(messages[A])].type = "leave"
       /\ Len(messages[B]) > 0 /\ messages[B][Len(messages[B])].id = nextId - 1
       /\ messages[B][Len(messages[B])].type = "join"
       /\ ~HasSocket(objs, rooms[A], s)
       /\ HasSocket(objs, rooms[B], s)
       /\ \A e \in outHist : e.to = s /\ e.room = B
       /\ \E e \in outHist : e.to = s
       /\ \A t \in Audience(sio, conn, A) :
             \E e \in outUserList :
                e.to = t /\ e.room = A /\ \A k \in 1..Len(e.list) : e.list[k].id # users[s]
       /\ \A t \in Audience(sio, conn, B) : \E e \in outUserList : e.to = t /\ e.room = B

\* the requests a client sends over the channel
ChannelOps == {"join", "join_room", "create_room", "delete_room", "send_message"}
\* request o, arriving in the current state, is one the server must refuse: a
\* join whose username is not of 2 to 20 characters; any other request from a
\* connection with no bound user; a join_room to an absent room; a
\* create_room by a muted user or for an existing id; a delete_room of
\* default, of an absent room or of a room with members
MustRefuse(o) ==
    \/ o.op = "join" /\ (o.arg \in {Absent, ""} \/ length(o.arg) < MinNameLen \/ length(o.arg) > MaxNameLen)
    \/ o.op \in ChannelOps \ {"join"} /\ o.sock \notin DOMAIN users
    \/ o.op = "join_room" /\ o.room \notin DOMAIN rooms
    \/ /\ o.op = "create_room" /\ o.sock \in DOMAIN users
       /\ (UserOf(o.sock).isMuted \/ o.room \in DOMAIN rooms)
    \/ /\ o.op = "delete_room"
       /\ (\/ o.room = "default"
           \/ o.room \notin DOMAIN rooms
           \/ Len(rooms[o.room].users) > 0)

\* C20: every channel request of the refused kinds, and every channel request
\* answered with an error, gets exactly one error, sent to the originating
\* connection and to nobody else, with nothing else sent, and leaves the
\* registry, the user objects, the rooms with their member lists, the
\* histories, the muted set and the channel subscriptions unchanged and the
\* connection open.
C20_RejectedRequestChangesNothing ==
    [][(last'.op \in ChannelOps /\ (MustRefuse(last') \/ last'.res = "error"))
        => /\ last'.res = "error"
           /\ Cardinality(outErr') = 1
           /\ \A e \in outErr' : e.to = last'.sock
           /\ outMsg' = {} /\ outHist' = {} /\ outUserList' = {}
           /\ outRoomList' = {} /\ outEv' = {}
           /\ users' = users /\ objs' = objs /\ rooms' = rooms
           /\ messages' = messages /\ mutedIPs' = mutedIPs /\ sio' = sio
           /\ conn' = conn /\ conn'[last'.sock] = "connected"]_vars
\* a join with a username of 21 characters was refused while another
\* connection has a bound user in a room
C20_Witness ==
    /\ last.op = "join" /\ last.res = "error"
    /\ last.arg # Absent /\ length(last.arg) > MaxNameLen
    /\ outErr = {[to |-> last.sock, text |-> "username length"]}
    /\ conn[last.sock] = "connected"
    /\ \E t \in DOMAIN users : t # last.sock /\ RoomsOf(t) # {}

\* C21: a send_message with blank content from a connection with a bound
\* user, muted or not, appends nothing to any history, delivers nothing to
\* any connection and sends no error.
C21_BlankSendIsSilent ==
    [][(last'.op = "send_message" /\ last'.arg = "blank" /\ last'.sock \in DOMAIN users)
        => /\ messages' = messages
           /\ outMsg' = {}
           /\ outErr' = {}]_vars

\* C22: an accepted send_message that names a room which does not exist
\* appends to no history, creates neither the room nor a history for it, and
\* leaves every existing room's history unchanged.
C22_SendToMissingRoomDropped ==
    [][(/\ last'.op = "send_message" /\ last'.res = "ok"
        /\ last'.room # Absent /\ last'.room \notin DOMAIN rooms)
        => /\ messages' = messages
           /\ rooms' = rooms
           /\ last'.room \notin DOMAIN messages'
           /\ last'.room \notin DOMAIN rooms']_vars
\* a joined user's text for a room that does not exist was accepted, an
\* identifier was drawn for it, and the histories hold no text message
C22_Witness ==
    /\ last.op = "send_message" /\ last.res = "ok" /\ last.arg = "text"
    /\ last.room # Absent
    /\ last.room \notin DOMAIN rooms /\ last.room \notin DOMAIN messages
    /\ nextId > 3
    /\ \A r \in DOMAIN messages : \A i \in 1..Len(messages[r]) : messages[r][i].type # "text"

\* C23: the room ids that have a message history are exactly the room ids in
\* the room store.
C23_HistoryPerRoom ==
    DOMAIN messages = DOMAIN rooms
\* a room has just been deleted over REST together with its history while a
\* user is bound, a second room exists besides default, and each room has its
\* history
C23_Witness ==
    /\ last.op = "api_delete_room" /\ last.res = "200"
    /\ last.room \notin DOMAIN rooms /\ last.room \notin DOMAIN messages
    /\ DOMAIN users # {}
    /\ Cardinality(DOMAIN rooms) > 1
    /\ \A r \in DOMAIN rooms : r \in DOMAIN messages

====
